---- MODULE Spec2Model ----
(***************************************************************************)
(* Model of build.rs, the build script of zcash_script.                    *)
(*                                                                         *)
(* One run of main() is a sequential pipeline: bindgen_headers,            *)
(* gen_cxxbridge, the relocation of the sapling module files, the          *)
(* configuration of the main cc::Build, build_secp256k1 (unless the        *)
(* external-secp feature is set) and the compilation of libzcash_script.a. *)
(* Every call that can fail (`?`, unwrap, expect, cc's compile) is a step  *)
(* with a nondeterministic outcome; a failure ends the run.                *)
(*                                                                         *)
(* Paths are sequences of components; a file name with an extension is one *)
(* component built by string concatenation, as format! builds it.          *)
(***************************************************************************)
EXTENDS Integers, Sequences, FiniteSets, TLC

\* Number of revisions of the vendored source tree that a run can start from.
MaxRev == 2

VARIABLES
    pc,         \* position of main() in the script
    status,     \* "running", "success" (main returned Ok) or "aborted"
    i,          \* index of the gen_cxxbridge loop over `filenames`
    env,        \* the environment of the run: variables, feature, compiler
    fs,         \* the file system: path -> content
    dirs,       \* the directories that exist under the output tree
    cargo,      \* the directives printed on stdout for cargo
    wlog,       \* history: which stage wrote or created which path
    copyReads,  \* history: the source paths read by the fs::copy calls
    gen,        \* the value held by `bindings` / `content` / `output`
    base_config,\* the cc::Build of the main archive
    build,      \* the cc::Build of build_secp256k1
    probe,      \* what is_big_endian and is_64bit_compilation did
    archives    \* the compile calls made, in order, with their outcome

vars == <<pc, status, i, env, fs, dirs, cargo, wlog, copyReads, gen,
          base_config, build, probe, archives>>

-----------------------------------------------------------------------------
(* Paths *)

Join(base, rel) == base \o rel

Parent(p) == SubSeq(p, 1, Len(p) - 1)

\* format!("{}<ext>", filename): the extension lands on the last component.
WithSuffix(filename, ext) == [filename EXCEPT ![Len(filename)] = @ \o ext]

\* All ancestors of p including p: what fs::create_dir_all(p) makes exist.
Ancestors(p) == { SubSeq(p, 1, k) : k \in 1..Len(p) }

IsUnder(p, root) == Len(p) > Len(root) /\ SubSeq(p, 1, Len(root)) = root

\* The value of OUT_DIR when it is set.
OutDir == <<"OUT_DIR">>

RustSrcDir == <<"depend", "zcash", "src", "rust", "src">>

\* format!("depend/zcash/src/rust/src/{}.rs", filename)
RustSrcPath(filename) == Join(RustSrcDir, WithSuffix(filename, ".rs"))

HeaderInput == <<"depend", "zcash", "src", "script", "zcash_script.h">>

\* out_path.join("bindings.rs")
BindingsPath == Join(OutDir, <<"bindings.rs">>)

\* Variant: generating into the source tree, as zcash's own build does.
GenPathInSource == <<"depend", "zcash", "src", "rust", "gen">>

\* PathBuf::from(out_path).join("gen")
GenPath == Join(OutDir, <<"gen">>)

SrcOutPath == Join(GenPath, <<"src">>)

HeaderOutPath == Join(Join(GenPath, <<"include">>), <<"rust">>)

CxxHeaderPath == Join(HeaderOutPath, <<"cxx.h">>)

\* `filenames` of gen_cxxbridge; "sapling/zip32" has two components.
filenames == << <<"blake2b">>, <<"ed25519">>, <<"equihash">>, <<"streams">>,
                <<"bridge">>, <<"sapling", "zip32">> >>

\* src_out_path.join(format!("{}.cpp", filename))
SrcPath(filename) == Join(SrcOutPath, WithSuffix(filename, ".cpp"))

\* Variant: the header written to the path of the implementation.
HeaderPathAsSrc(filename) == SrcPath(filename)

\* header_out_path.join(format!("{}.h", filename))
HeaderPath(filename) == Join(HeaderOutPath, WithSuffix(filename, ".h"))

\* PathBuf::from(rust_path).join("rust")
RustPath == Join(OutDir, <<"rust">>)

\* The list the relocation's rerun-if-changed loop iterates over.
RelocNames == << <<"sapling.rs">>, <<"sapling", "spec.rs">>,
                 <<"sapling", "zip32.rs">> >>

\* Variant: the root module file copied without being renamed.
RelocCopiesUnrenamed ==
    << [src |-> Join(RustSrcDir, <<"sapling.rs">>),
        dst |-> Join(RustPath, <<"sapling.rs">>)],
       [src |-> Join(RustSrcDir, <<"sapling", "spec.rs">>),
        dst |-> Join(RustPath, <<"sapling", "spec.rs">>)],
       [src |-> Join(RustSrcDir, <<"sapling", "zip32.rs">>),
        dst |-> Join(RustPath, <<"sapling", "zip32.rs">>)] >>

\* The three fs::copy calls: source and destination.
RelocCopies ==
    << [src |-> Join(RustSrcDir, <<"sapling.rs">>),
        dst |-> Join(RustPath, <<"sapling", "mod.rs">>)],
       [src |-> Join(RustSrcDir, <<"sapling", "spec.rs">>),
        dst |-> Join(RustPath, <<"sapling", "spec.rs">>)],
       [src |-> Join(RustSrcDir, <<"sapling", "zip32.rs">>),
        dst |-> Join(RustPath, <<"sapling", "zip32.rs">>)] >>

Range(s) == { s[k] : k \in DOMAIN s }

\* The files of the vendored tree that the script reads.
SourcePaths ==
    {HeaderInput}
    \cup { Join(RustSrcDir, WithSuffix(f, ".rs")) : f \in Range(filenames) }
    \cup { c.src : c \in Range(RelocCopies) }

SrcContent(p, rev) == [file |-> p, rev |-> rev]

-----------------------------------------------------------------------------
(* The generators, by what they produce *)

\* bindgen::Builder::generate on the header.
Bindgen(content) == [kind |-> "bindings", of |-> content]

\* cxx_gen::HEADER
CxxGenHeader == [kind |-> "cxx.h", of |-> "cxx_gen"]

\* cxx_gen::generate_header_and_cc: output.header and output.implementation.
GeneratedCode(content) ==
    [header |-> [kind |-> "header", of |-> content],
     implementation |-> [kind |-> "implementation", of |-> content]]

NoValue == [kind |-> "none"]

-----------------------------------------------------------------------------
(* Outcomes of the fallible calls *)

\* Variant: a missing variable replaced by a default instead of an error.
EnvVarDefaulted(v) == TRUE

\* env::var(..) is Ok exactly when the variable is set.
EnvVarIsSet(v) == v # "absent"

\* `?`, unwrap() and expect(): an error ends the run.
Unwrap(ok) == IF ok THEN "running" ELSE "aborted"

\* fs::write / fs::copy need the destination's directory to exist.
CanWrite(p, ds) == Parent(p) \in ds

WriteRec(stage, kind, module, p) ==
    [stage |-> stage, kind |-> kind, module |-> module, path |-> p]

Directive(by, kind, arg) == [by |-> by, kind |-> kind, arg |-> arg]

-----------------------------------------------------------------------------
(* Initial states *)

OutputPaths ==
    {BindingsPath, CxxHeaderPath}
    \cup { HeaderPath(f) : f \in Range(filenames) }
    \cup { SrcPath(f) : f \in Range(filenames) }
    \cup { c.dst : c \in Range(RelocCopies) }

StaleContent == [kind |-> "stale"]

\* The output tree is empty, or holds what an earlier run left there.
InitialOutput(stale) ==
    IF stale THEN [p \in OutputPaths |-> StaleContent] ELSE << >>

InitialDirs(stale) ==
    IF stale THEN UNION { Ancestors(Parent(p)) : p \in OutputPaths }
    ELSE {OutDir}

EnvSet ==
    [ feature_external_secp : BOOLEAN,
      OUT_DIR : BOOLEAN,
      TARGET : {"absent", "x86_64-unknown-linux-gnu", "x86_64-pc-windows-msvc"},
      CARGO_CFG_TARGET_ENDIAN : {"absent", "big", "little"},
      CARGO_CFG_TARGET_POINTER_WIDTH : {"absent", "16", "32", "64"},
      msvc : BOOLEAN,
      rev : 1..MaxRev ]

NewBuild == [defines |-> {}, files |-> {}, includes |-> {}, flags |-> {},
             cpp |-> FALSE]

NoProbe == [endianRead |-> FALSE, widthRead |-> FALSE, trialRun |-> FALSE,
            check |-> FALSE, big |-> FALSE, is64 |-> FALSE, returned |-> FALSE]

\* Variant: the prober and build_secp256k1 called first, the generating
\* stages after them.
MainOrderProberFirst(point) ==
    CASE point = "entry" -> "secp_std"
      [] point = "after_build_secp256k1" -> "bindgen_declare"
      [] point = "after_relocation" -> "main_outdir"
      [] point = "external_secp_unset" -> "main_windows"

\* The order of the calls in main: bindgen_headers, gen_cxxbridge, the
\* relocation, the configuration of base_config, build_secp256k1, compile.
MainOrder(point) ==
    CASE point = "entry" -> "bindgen_declare"
      [] point = "after_relocation" -> "main_outdir"
      [] point = "external_secp_unset" -> "secp_std"
      [] point = "after_build_secp256k1" -> "main_windows"

Init ==
    /\ pc = MainOrder("entry")
    /\ status = "running"
    /\ i = 1
    /\ env \in EnvSet
    /\ \E stale \in BOOLEAN :
         /\ fs = [p \in SourcePaths |-> SrcContent(p, env.rev)]
                    @@ InitialOutput(stale)
         /\ dirs = InitialDirs(stale)
    /\ cargo = {}
    /\ wlog = {}
    /\ copyReads = {}
    /\ gen = NoValue
    /\ base_config = NewBuild
    /\ build = NewBuild
    /\ probe = NoProbe
    /\ archives = << >>

Running(label) == pc = label /\ status = "running"

Goto(label) == pc' = label /\ status' = "running"

\* The call at `pc` succeeded (go on at `label`) or failed (the run ends).
Step(ok, label) ==
    /\ status' = Unwrap(ok)
    /\ pc' = IF Unwrap(ok) = "running" THEN label ELSE pc

-----------------------------------------------------------------------------
(* bindgen_headers *)

bindgen_declare ==
    /\ Running("bindgen_declare")
    /\ cargo' = cargo \cup {Directive("bindgen", "rerun-if-changed", HeaderInput)}
    /\ Goto("bindgen_generate")
    /\ UNCHANGED <<i, env, fs, dirs, wlog, copyReads, gen, base_config, build,
                   probe, archives>>

bindgen_generate ==
    /\ Running("bindgen_generate")
    /\ \E ok \in BOOLEAN :
         /\ Step(ok, "bindgen_outdir")
         /\ gen' = IF ok THEN Bindgen(fs[HeaderInput]) ELSE gen
    /\ UNCHANGED <<i, env, fs, dirs, cargo, wlog, copyReads, base_config,
                   build, probe, archives>>

bindgen_outdir ==
    /\ Running("bindgen_outdir")
    /\ Step(env.OUT_DIR, "bindgen_write")
    /\ UNCHANGED <<i, env, fs, dirs, cargo, wlog, copyReads, gen, base_config,
                   build, probe, archives>>

bindgen_write ==
    /\ Running("bindgen_write")
    /\ \E ok \in BOOLEAN :
         LET done == ok /\ CanWrite(BindingsPath, dirs) IN
         /\ Step(done, "cxx_outdir")
         /\ fs' = IF done THEN (BindingsPath :> gen) @@ fs ELSE fs
         /\ wlog' = IF done
                    THEN wlog \cup {WriteRec("bindgen", "bindings", << >>,
                                             BindingsPath)}
                    ELSE wlog
    /\ gen' = NoValue
    /\ UNCHANGED <<i, env, dirs, cargo, copyReads, base_config, build, probe,
                   archives>>

-----------------------------------------------------------------------------
(* gen_cxxbridge *)

cxx_outdir ==
    /\ Running("cxx_outdir")
    /\ Step(env.OUT_DIR, "cxx_mkdir_src")
    /\ UNCHANGED <<i, env, fs, dirs, cargo, wlog, copyReads, gen, base_config,
                   build, probe, archives>>

cxx_mkdir_src ==
    /\ Running("cxx_mkdir_src")
    /\ \E ok \in BOOLEAN :
         /\ Step(ok, "cxx_mkdir_header")
         /\ dirs' = IF ok THEN dirs \cup Ancestors(SrcOutPath) ELSE dirs
    /\ UNCHANGED <<i, env, fs, cargo, wlog, copyReads, gen, base_config, build,
                   probe, archives>>

cxx_mkdir_header ==
    /\ Running("cxx_mkdir_header")
    /\ \E ok \in BOOLEAN :
         /\ Step(ok, "cxx_header")
         /\ dirs' = IF ok THEN dirs \cup Ancestors(HeaderOutPath) ELSE dirs
    /\ UNCHANGED <<i, env, fs, cargo, wlog, copyReads, gen, base_config, build,
                   probe, archives>>

cxx_header ==
    /\ Running("cxx_header")
    /\ \E ok \in BOOLEAN :
         LET done == ok /\ CanWrite(CxxHeaderPath, dirs) IN
         /\ Step(done, "cxx_declare")
         /\ fs' = IF done THEN (CxxHeaderPath :> CxxGenHeader) @@ fs ELSE fs
         /\ wlog' = IF done
                    THEN wlog \cup {WriteRec("cxxbridge", "cxx.h", << >>,
                                             CxxHeaderPath)}
                    ELSE wlog
    /\ UNCHANGED <<i, env, dirs, cargo, copyReads, gen, base_config, build,
                   probe, archives>>

cxx_declare ==
    /\ Running("cxx_declare")
    /\ cargo' = cargo \cup {Directive("cxxbridge", "rerun-if-changed",
                                      RustSrcPath(filenames[i]))}
    /\ Goto("cxx_read")
    /\ UNCHANGED <<i, env, fs, dirs, wlog, copyReads, gen, base_config, build,
                   probe, archives>>

\* File::open and read_to_string of depend/zcash/src/rust/src/<filename>.rs
cxx_read ==
    /\ Running("cxx_read")
    /\ \E ok \in BOOLEAN :
         LET p == RustSrcPath(filenames[i])
             done == ok /\ p \in DOMAIN fs IN
         /\ Step(done, "cxx_generate")
         /\ gen' = IF done THEN fs[p] ELSE gen
    /\ UNCHANGED <<i, env, fs, dirs, cargo, wlog, copyReads, base_config,
                   build, probe, archives>>

\* syn::parse_file and cxx_gen::generate_header_and_cc
cxx_generate ==
    /\ Running("cxx_generate")
    /\ \E ok \in BOOLEAN :
         /\ Step(ok, "cxx_write_header")
         /\ gen' = IF ok THEN GeneratedCode(gen) ELSE gen
    /\ UNCHANGED <<i, env, fs, dirs, cargo, wlog, copyReads, base_config,
                   build, probe, archives>>

\* create_dir_all(header_path.parent()) and fs::write(header_path, ..)
cxx_write_header ==
    /\ Running("cxx_write_header")
    /\ \E mk \in BOOLEAN, ok \in BOOLEAN :
         LET p == HeaderPath(filenames[i])
             ds == IF mk THEN dirs \cup Ancestors(Parent(p)) ELSE dirs
             done == mk /\ ok /\ CanWrite(p, ds) IN
         /\ Step(done, "cxx_write_src")
         /\ dirs' = ds
         /\ fs' = IF done THEN (p :> gen.header) @@ fs ELSE fs
         /\ wlog' = IF done
                    THEN wlog \cup {WriteRec("cxxbridge", "header",
                                             filenames[i], p)}
                    ELSE wlog
    /\ UNCHANGED <<i, env, cargo, copyReads, gen, base_config, build, probe,
                   archives>>

\* create_dir_all(src_path.parent()) and fs::write(src_path, ..)
cxx_write_src ==
    /\ Running("cxx_write_src")
    /\ \E mk \in BOOLEAN, ok \in BOOLEAN :
         LET p == SrcPath(filenames[i])
             ds == IF mk THEN dirs \cup Ancestors(Parent(p)) ELSE dirs
             done == mk /\ ok /\ CanWrite(p, ds) IN
         /\ Step(done, IF i < Len(filenames) THEN "cxx_declare"
                       ELSE "reloc_outdir")
         /\ dirs' = ds
         /\ fs' = IF done THEN (p :> gen.implementation) @@ fs ELSE fs
         /\ wlog' = IF done
                    THEN wlog \cup {WriteRec("cxxbridge", "implementation",
                                             filenames[i], p)}
                    ELSE wlog
         /\ i' = IF done /\ i < Len(filenames) THEN i + 1 ELSE i
         /\ gen' = IF done THEN NoValue ELSE gen
    /\ UNCHANGED <<env, cargo, copyReads, base_config, build, probe, archives>>

-----------------------------------------------------------------------------
(* main: relocation of the sapling module files *)

reloc_outdir ==
    /\ Running("reloc_outdir")
    /\ Step(env.OUT_DIR, "reloc_mkdir")
    /\ UNCHANGED <<i, env, fs, dirs, cargo, wlog, copyReads, gen, base_config,
                   build, probe, archives>>

\* fs::create_dir_all(rust_path.join("sapling"))
reloc_mkdir ==
    /\ Running("reloc_mkdir")
    /\ \E ok \in BOOLEAN :
         /\ Step(ok, "reloc_declare")
         /\ dirs' = IF ok
                    THEN dirs \cup Ancestors(Join(RustPath, <<"sapling">>))
                    ELSE dirs
    /\ UNCHANGED <<i, env, fs, cargo, wlog, copyReads, gen, base_config, build,
                   probe, archives>>

\* The loop printing one rerun-if-changed line per entry of the list.
RelocDeclared ==
    { Directive("relocator", "rerun-if-changed", RustSrcPath(n)) :
        n \in Range(RelocNames) }

reloc_declare ==
    /\ Running("reloc_declare")
    /\ cargo' = cargo \cup RelocDeclared
    /\ Goto("reloc_copy")
    /\ i' = 1
    /\ UNCHANGED <<env, fs, dirs, wlog, copyReads, gen, base_config, build,
                   probe, archives>>

\* The i-th of the three fs::copy(..).unwrap() calls.
reloc_copy ==
    /\ Running("reloc_copy")
    /\ \E okr \in BOOLEAN, okw \in BOOLEAN :
         LET c == RelocCopies[i]
             read == okr /\ c.src \in DOMAIN fs
             done == read /\ okw /\ CanWrite(c.dst, dirs) IN
         /\ Step(done, IF i < Len(RelocCopies) THEN "reloc_copy"
                       ELSE MainOrder("after_relocation"))
         /\ copyReads' = IF read THEN copyReads \cup {c.src} ELSE copyReads
         /\ fs' = IF done THEN (c.dst :> fs[c.src]) @@ fs ELSE fs
         /\ wlog' = IF done
                    THEN wlog \cup {WriteRec("relocator", "copy", << >>, c.dst)}
                    ELSE wlog
         /\ i' = IF done /\ i < Len(RelocCopies) THEN i + 1 ELSE i
    /\ UNCHANGED <<env, dirs, cargo, gen, base_config, build, probe, archives>>

-----------------------------------------------------------------------------
(* language_std and the configuration of the main build *)

\* std.starts_with("c++"), on the two tags the script uses.
StartsWithCxx(std) == std = "c++17"

\* language_std(build, std), given whether the compiler is like MSVC.
LanguageStd(b, std, msvc) ==
    [b EXCEPT !.cpp = StartsWithCxx(std),
              !.flags = @ \cup {(IF msvc THEN "/std:" ELSE "-std=") \o std}]

\* target.contains("windows"), on the targets of EnvSet.
ContainsWindows(target) == target = "x86_64-pc-windows-msvc"

Define(name, value) == <<name, value>>

DefineNames(b) == { d[1] : d \in b.defines }

main_outdir ==
    /\ Running("main_outdir")
    /\ Step(env.OUT_DIR, "main_target")
    /\ UNCHANGED <<i, env, fs, dirs, cargo, wlog, copyReads, gen, base_config,
                   build, probe, archives>>

\* env::var("TARGET").expect("TARGET was not set")
main_target ==
    /\ Running("main_target")
    /\ Step(EnvVarIsSet(env.TARGET), "main_std")
    /\ UNCHANGED <<i, env, fs, dirs, cargo, wlog, copyReads, gen, base_config,
                   build, probe, archives>>

\* cc::Build::new() and language_std; get_compiler() panics without compiler.
main_std ==
    /\ Running("main_std")
    /\ \E ok \in BOOLEAN :
         /\ Step(ok, "main_config")
         /\ base_config' = IF ok
                           THEN LanguageStd(NewBuild, "c++17", env.msvc)
                           ELSE base_config
    /\ UNCHANGED <<i, env, fs, dirs, cargo, wlog, copyReads, gen, build, probe,
                   archives>>

BaseIncludes ==
    { <<"depend", "zcash", "src">>,
      <<"depend", "zcash", "src", "rust", "include">>,
      <<"depend", "zcash", "src", "secp256k1", "include">>,
      <<"depend", "expected", "include">>,
      Join(GenPath, <<"include">>) }

BaseFlags ==
    { "-Wno-implicit-fallthrough", "-Wno-catch-value", "-Wno-reorder",
      "-Wno-deprecated-copy", "-Wno-unused-parameter", "-Wno-unused-variable",
      "-Wno-ignored-qualifiers", "-Wno-sign-compare", "/wd4100" }

BaseDefines ==
    { Define("HAVE_DECL_STRNLEN", "1"), Define("__STDC_FORMAT_MACROS", "None") }

main_config ==
    /\ Running("main_config")
    /\ base_config' = [base_config EXCEPT !.includes = @ \cup BaseIncludes,
                                          !.flags = @ \cup BaseFlags,
                                          !.defines = @ \cup BaseDefines]
    /\ Goto("main_secp")
    /\ UNCHANGED <<i, env, fs, dirs, cargo, wlog, copyReads, gen, build, probe,
                   archives>>

\* Variant: the feature test left out.
BuildsSecpAlways(feature) == TRUE

\* !cfg!(feature = "external-secp")
BuildsSecp(feature) == ~feature

main_secp ==
    /\ Running("main_secp")
    /\ Goto(IF BuildsSecp(env.feature_external_secp)
            THEN MainOrder("external_secp_unset")
            ELSE "main_windows")
    /\ UNCHANGED <<i, env, fs, dirs, cargo, wlog, copyReads, gen, base_config,
                   build, probe, archives>>

main_windows ==
    /\ Running("main_windows")
    /\ base_config' =
         IF ContainsWindows(env.TARGET)
         THEN [base_config EXCEPT !.defines = @ \cup {Define("WIN32", "1")}]
         ELSE base_config
    /\ Goto("main_compile")
    /\ UNCHANGED <<i, env, fs, dirs, cargo, wlog, copyReads, gen, build, probe,
                   archives>>

VendoredFiles ==
    { <<"depend", "zcash", "src", "script", "zcash_script.cpp">>,
      <<"depend", "zcash", "src", "util", "strencodings.cpp">>,
      <<"depend", "zcash", "src", "amount.cpp">>,
      <<"depend", "zcash", "src", "uint256.cpp">>,
      <<"depend", "zcash", "src", "pubkey.cpp">>,
      <<"depend", "zcash", "src", "hash.cpp">>,
      <<"depend", "zcash", "src", "streams_rust.cpp">>,
      <<"depend", "zcash", "src", "zip317.cpp">>,
      <<"depend", "zcash", "src", "primitives", "transaction.cpp">>,
      <<"depend", "zcash", "src", "crypto", "ripemd160.cpp">>,
      <<"depend", "zcash", "src", "crypto", "sha1.cpp">>,
      <<"depend", "zcash", "src", "crypto", "sha256.cpp">>,
      <<"depend", "zcash", "src", "crypto", "sha512.cpp">>,
      <<"depend", "zcash", "src", "crypto", "hmac_sha512.cpp">>,
      <<"depend", "zcash", "src", "script", "interpreter.cpp">>,
      <<"depend", "zcash", "src", "script", "script.cpp">>,
      <<"depend", "zcash", "src", "script", "script_error.cpp">>,
      <<"depend", "zcash", "src", "support", "cleanse.cpp">>,
      <<"depend", "zcash", "src", "zcash", "cache.cpp">> }

\* gen_path.join("src/blake2b.cpp") and the two others
GeneratedFiles ==
    { Join(GenPath, <<"src", "blake2b.cpp">>),
      Join(GenPath, <<"src", "bridge.cpp">>),
      Join(GenPath, <<"src", "streams.cpp">>) }

\* Variant: try_compile with its result dropped in place of compile.
CompileTolerant(ok) == "running"

\* cc::Build::compile ends the process when the compilation fails.
CompileOutcome(ok) == IF ok THEN "running" ELSE "aborted"

Compiled(name, ok) == [name |-> name, ok |-> ok]

\* .file(..) x 22 and .compile("libzcash_script.a"), then Ok(())
main_compile ==
    /\ Running("main_compile")
    /\ \E ok \in BOOLEAN :
         LET files == VendoredFiles \cup GeneratedFiles
             done == ok /\ GeneratedFiles \subseteq DOMAIN fs IN
         /\ base_config' = [base_config EXCEPT !.files = @ \cup files]
         /\ archives' = Append(archives, Compiled("libzcash_script.a", done))
         /\ status' = IF CompileOutcome(done) = "running" THEN "success"
                      ELSE "aborted"
         /\ pc' = IF CompileOutcome(done) = "running" THEN "done" ELSE pc
    /\ UNCHANGED <<i, env, fs, dirs, cargo, wlog, copyReads, gen, build, probe>>

-----------------------------------------------------------------------------
(* build_secp256k1, is_big_endian, is_64bit_compilation *)

\* cc::Build::new() and language_std(&mut build, "c99")
secp_std ==
    /\ Running("secp_std")
    /\ \E ok \in BOOLEAN :
         /\ Step(ok, "secp_config")
         /\ build' = IF ok THEN LanguageStd(NewBuild, "c99", env.msvc)
                     ELSE build
    /\ UNCHANGED <<i, env, fs, dirs, cargo, wlog, copyReads, gen, base_config,
                   probe, archives>>

SecpDefines ==
    { Define("SECP256K1_BUILD", ""), Define("USE_NUM_NONE", "1"),
      Define("USE_FIELD_INV_BUILTIN", "1"),
      Define("USE_SCALAR_INV_BUILTIN", "1"),
      Define("ECMULT_WINDOW_SIZE", "15"), Define("ECMULT_GEN_PREC_BITS", "4"),
      Define("USE_ENDOMORPHISM", "1"), Define("ENABLE_MODULE_RECOVERY", "1") }

secp_config ==
    /\ Running("secp_config")
    /\ build' = [build EXCEPT
                   !.defines = @ \cup SecpDefines,
                   !.includes = @ \cup {<<"depend", "zcash", "src", "secp256k1">>},
                   !.flags = @ \cup {"-Wno-unused-function",
                                     "-Wno-unused-parameter"}]
    /\ Goto("secp_endian")
    /\ UNCHANGED <<i, env, fs, dirs, cargo, wlog, copyReads, gen, base_config,
                   probe, archives>>

\* is_big_endian(): endianess == "big"
IsBigEndian(endianess) == endianess = "big"

\* if is_big_endian() { build.define("WORDS_BIGENDIAN", "1"); }
secp_endian ==
    /\ Running("secp_endian")
    /\ LET v == env.CARGO_CFG_TARGET_ENDIAN
           ok == EnvVarIsSet(v) IN
       /\ Step(ok, "secp_width")
       /\ probe' = [probe EXCEPT !.endianRead = TRUE,
                                 !.big = ok /\ IsBigEndian(v)]
       /\ build' = IF ok /\ IsBigEndian(v)
                   THEN [build EXCEPT
                           !.defines = @ \cup {Define("WORDS_BIGENDIAN", "1")}]
                   ELSE build
    /\ UNCHANGED <<i, env, fs, dirs, cargo, wlog, copyReads, gen, base_config,
                   archives>>

\* env::var("CARGO_CFG_TARGET_POINTER_WIDTH").expect(..)
secp_width ==
    /\ Running("secp_width")
    /\ Step(EnvVarIsSet(env.CARGO_CFG_TARGET_POINTER_WIDTH), "secp_trial")
    /\ probe' = [probe EXCEPT !.widthRead = TRUE]
    /\ UNCHANGED <<i, env, fs, dirs, cargo, wlog, copyReads, gen, base_config,
                   build, archives>>

\* Variant: the trial compilation run whatever the pointer width.
TrialAlways(target_pointer_width) == TRUE

\* target_pointer_width == "64": the condition guarding the trial compilation
TrialAttempted(target_pointer_width) == target_pointer_width = "64"

\* Variant: the pointer width alone decides, the trial's outcome is dropped.
Is64bitIgnoringTrial(target_pointer_width, check) ==
    target_pointer_width = "64"

\* The value is_64bit_compilation returns, `check` being the trial's outcome.
Is64bitCompilation(target_pointer_width, check) ==
    IF target_pointer_width = "64" THEN check ELSE FALSE

\* if !check { println!("cargo:warning=..") }
WarnsOn(check) == ~check

Warning ==
    Directive("prober", "warning",
              <<"Compiling in 32-bit mode on a 64-bit architecture due to lack of uint128_t support.">>)

\* The rest of is_64bit_compilation: try_compile("check_uint128_t").is_ok()
secp_trial ==
    /\ Running("secp_trial")
    /\ LET w == env.CARGO_CFG_TARGET_POINTER_WIDTH IN
       \E check \in BOOLEAN :
         /\ TrialAttempted(w) \/ ~check
         /\ probe' = [probe EXCEPT
                        !.trialRun = TrialAttempted(w),
                        !.check = check,
                        !.is64 = Is64bitCompilation(w, check),
                        !.returned = TRUE]
         /\ archives' = IF TrialAttempted(w)
                        THEN Append(archives, Compiled("check_uint128_t", check))
                        ELSE archives
         /\ cargo' = IF TrialAttempted(w) /\ WarnsOn(check)
                     THEN cargo \cup {Warning} ELSE cargo
    /\ Goto("secp_variant")
    /\ UNCHANGED <<i, env, fs, dirs, wlog, copyReads, gen, base_config, build>>

WideDefines ==
    { Define("USE_FIELD_5X52", "1"), Define("USE_SCALAR_4X64", "1"),
      Define("HAVE___INT128", "1") }

NarrowDefines ==
    { Define("USE_FIELD_10X26", "1"), Define("USE_SCALAR_8X32", "1") }

\* if is_64bit_compilation() { wide } else { narrow }
VariantDefines(is64) == IF is64 THEN WideDefines ELSE NarrowDefines

secp_variant ==
    /\ Running("secp_variant")
    /\ build' = [build EXCEPT !.defines = @ \cup VariantDefines(probe.is64)]
    /\ Goto("secp_compile")
    /\ UNCHANGED <<i, env, fs, dirs, cargo, wlog, copyReads, gen, base_config,
                   probe, archives>>

SecpFiles ==
    { <<"depend", "zcash", "src", "secp256k1", "src", "secp256k1.c">>,
      <<"depend", "zcash", "src", "secp256k1", "src", "precomputed_ecmult.c">>,
      <<"depend", "zcash", "src", "secp256k1", "src", "precomputed_ecmult_gen.c">> }

\* .file(..) x 3 and .compile("libsecp256k1.a")
secp_compile ==
    /\ Running("secp_compile")
    /\ \E ok \in BOOLEAN :
         /\ build' = [build EXCEPT !.files = @ \cup SecpFiles]
         /\ archives' = Append(archives, Compiled("libsecp256k1.a", ok))
         /\ status' = CompileOutcome(ok)
         /\ pc' = IF CompileOutcome(ok) = "running"
                  THEN MainOrder("after_build_secp256k1") ELSE pc
    /\ UNCHANGED <<i, env, fs, dirs, cargo, wlog, copyReads, gen, base_config,
                   probe>>

-----------------------------------------------------------------------------
(* One run of the script *)

Next ==
    \/ bindgen_declare
    \/ bindgen_generate
    \/ bindgen_outdir
    \/ bindgen_write
    \/ cxx_outdir
    \/ cxx_mkdir_src
    \/ cxx_mkdir_header
    \/ cxx_header
    \/ cxx_declare
    \/ cxx_read
    \/ cxx_generate
    \/ cxx_write_header
    \/ cxx_write_src
    \/ reloc_outdir
    \/ reloc_mkdir
    \/ reloc_declare
    \/ reloc_copy
    \/ main_outdir
    \/ main_target
    \/ main_std
    \/ main_config
    \/ main_secp
    \/ secp_std
    \/ secp_config
    \/ secp_endian
    \/ secp_width
    \/ secp_trial
    \/ secp_variant
    \/ secp_compile
    \/ main_windows
    \/ main_compile

Spec == Init /\ [][Next]_vars

-----------------------------------------------------------------------------
(* Vocabulary of the properties *)

Width == env.CARGO_CFG_TARGET_POINTER_WIDTH

Endian == env.CARGO_CFG_TARGET_ENDIAN

ExternalSecp == env.feature_external_secp

Attempts(name) == { k \in DOMAIN archives : archives[k].name = name }

Built(name) == \E k \in Attempts(name) : archives[k].ok

\* build_secp256k1 has finished assembling its cc::Build.
SecpPlanReady == pc = "secp_compile" \/ Attempts("libsecp256k1.a") # {}

WrittenPaths == { w.path : w \in wlog }

WrittenBy(stage) == { w.path : w \in { x \in wlog : x.stage = stage } }

\* Every file the three generating stages produce has been written.
ExpectedOutputs ==
    { <<"OUT_DIR", "bindings.rs">>,
      <<"OUT_DIR", "gen", "include", "rust", "cxx.h">>,
      <<"OUT_DIR", "gen", "include", "rust", "blake2b.h">>,
      <<"OUT_DIR", "gen", "include", "rust", "ed25519.h">>,
      <<"OUT_DIR", "gen", "include", "rust", "equihash.h">>,
      <<"OUT_DIR", "gen", "include", "rust", "streams.h">>,
      <<"OUT_DIR", "gen", "include", "rust", "bridge.h">>,
      <<"OUT_DIR", "gen", "include", "rust", "sapling", "zip32.h">>,
      <<"OUT_DIR", "gen", "src", "blake2b.cpp">>,
      <<"OUT_DIR", "gen", "src", "ed25519.cpp">>,
      <<"OUT_DIR", "gen", "src", "equihash.cpp">>,
      <<"OUT_DIR", "gen", "src", "streams.cpp">>,
      <<"OUT_DIR", "gen", "src", "bridge.cpp">>,
      <<"OUT_DIR", "gen", "src", "sapling", "zip32.cpp">>,
      <<"OUT_DIR", "rust", "sapling", "mod.rs">>,
      <<"OUT_DIR", "rust", "sapling", "spec.rs">>,
      <<"OUT_DIR", "rust", "sapling", "zip32.rs">> }

AllWritten == ExpectedOutputs \subseteq WrittenPaths

ProberActed == probe # NoProbe

-----------------------------------------------------------------------------
(* C1 *)

\* C1: once build_secp256k1 has assembled its plan, the plan holds the wide
\* defines (USE_FIELD_5X52, USE_SCALAR_4X64, HAVE___INT128) exactly when the
\* pointer width is 64 and the extended-integer trial succeeded, the narrow
\* defines (USE_FIELD_10X26, USE_SCALAR_8X32) exactly otherwise, and never a
\* define of both variants or of neither.
C1_VariantSelection ==
    SecpPlanReady =>
      LET wide == Width = "64" /\ probe.check
          names == DefineNames(build)
          W == {"USE_FIELD_5X52", "USE_SCALAR_4X64", "HAVE___INT128"}
          N == {"USE_FIELD_10X26", "USE_SCALAR_8X32"} IN
      /\ wide => W \subseteq names /\ N \cap names = {}
      /\ ~wide => N \subseteq names /\ W \cap names = {}

C1_Witness ==
    /\ pc = "secp_compile"
    /\ Width = "64" /\ probe.check
    /\ "USE_FIELD_5X52" \in DefineNames(build)

-----------------------------------------------------------------------------
(* C2 *)

\* C2: the extended-integer trial is compiled only when the pointer width is
\* 64; when it fails, is_64bit_compilation returns false, the warning is
\* printed, the run is not ended by it and the vendored library is compiled
\* with the narrow defines; when the pointer width is not 64 the result is
\* false, no trial is compiled and no warning is printed.
C2_TrialFallback ==
    /\ (probe.trialRun \/ Attempts("check_uint128_t") # {}) => Width = "64"
    /\ Warning \in cargo => probe.trialRun /\ ~probe.check
    /\ (probe.returned /\ Width = "64") =>
          /\ probe.trialRun
          /\ Attempts("check_uint128_t") # {}
          /\ probe.is64 = probe.check
          /\ ~probe.check => Warning \in cargo
    /\ (probe.returned /\ Width = "64" /\ ~probe.check) =>
          /\ pc = "secp_variant" => status = "running"
          /\ Attempts("libsecp256k1.a") # {} =>
                /\ "USE_FIELD_10X26" \in DefineNames(build)
                /\ "USE_SCALAR_8X32" \in DefineNames(build)
                /\ "HAVE___INT128" \notin DefineNames(build)
    /\ (probe.returned /\ Width # "64") =>
          /\ ~probe.is64
          /\ ~probe.trialRun
          /\ Attempts("check_uint128_t") = {}
          /\ Warning \notin cargo

C2_Witness ==
    /\ Width = "64"
    /\ probe.trialRun /\ ~probe.check
    /\ Warning \in cargo
    /\ Built("libsecp256k1.a")
    /\ status = "success"

-----------------------------------------------------------------------------
(* C3 *)

DescriptorAbsent == Endian = "absent" \/ Width = "absent"

\* C3 as stated: a run in which the byte-order or the pointer-width descriptor
\* is absent never ends in success, whatever the external-secp feature.
C3_AbsentDescriptorNeverSucceeds ==
    DescriptorAbsent => status # "success"

\* C3 amended: when the external-secp feature is not set, a run in which the
\* byte-order or the pointer-width descriptor is absent never ends in success
\* and never gets past the read of the absent descriptor in build_secp256k1;
\* when the feature is set, neither descriptor is read.
C3_AbsentDescriptorFatalWithVendoredSecp ==
    /\ (~ExternalSecp /\ DescriptorAbsent) =>
          /\ status # "success"
          /\ pc \notin {"secp_trial", "secp_variant", "secp_compile",
                        "main_windows", "main_compile", "done"}
          /\ Attempts("libsecp256k1.a") = {}
          /\ Attempts("libzcash_script.a") = {}
    /\ (~ExternalSecp /\ Endian = "absent") => pc # "secp_width"
    /\ ExternalSecp => ~probe.endianRead /\ ~probe.widthRead

C3_Witness ==
    /\ ~ExternalSecp
    /\ Endian # "absent" /\ Width = "absent"
    /\ pc = "secp_width" /\ probe.widthRead
    /\ status = "aborted"

-----------------------------------------------------------------------------
(* C4 *)

\* The outputs of the three generating stages are those of this run.
FreshOutputs ==
    \A p \in ExpectedOutputs :
        /\ p \in WrittenPaths
        /\ p \in DOMAIN fs
        /\ fs[p] # StaleContent

C4_State ==
    /\ status = "success" =>
          /\ pc = "done"
          /\ archives # << >>
          /\ archives[Len(archives)] = Compiled("libzcash_script.a", TRUE)
          /\ \A k \in DOMAIN archives :
                archives[k].ok \/ archives[k].name = "check_uint128_t"
          /\ env.OUT_DIR /\ env.TARGET # "absent"
          /\ FreshOutputs
    /\ \A k \in DOMAIN archives :
          (~archives[k].ok /\ archives[k].name # "check_uint128_t") =>
              k = Len(archives) /\ status = "aborted"
    /\ ~env.OUT_DIR => wlog = {} /\ archives = << >>
    /\ env.TARGET = "absent" => archives = << >>
    /\ status = "aborted" => ~Built("libzcash_script.a")

\* C4: a run ends in success only with libzcash_script.a compiled in that run
\* after every generated and relocated file was written in that run; a failed
\* compiler invocation of either plan, a missing OUT_DIR or TARGET, and every
\* other failed call end the run where they happen, and an ended run does
\* nothing more.  Only the failure of the extended-integer trial is survived.
C4_NoPartialSuccess ==
    /\ []C4_State
    /\ [][status # "running" => UNCHANGED vars]_vars
    /\ [][status' = "aborted" => (pc' = pc /\ fs' = fs /\ wlog' = wlog)]_vars

C4_Witness ==
    /\ status = "aborted"
    /\ pc = "main_compile"
    /\ archives # << >>
    /\ archives[Len(archives)] = Compiled("libzcash_script.a", FALSE)

-----------------------------------------------------------------------------
(* C5 *)

\* C5: libsecp256k1.a is compiled only when the external-secp feature is not
\* set, and by the time the main archive is configured for compilation it has
\* been compiled exactly when the feature is not set; a run compiles each of
\* the two plans at most once, libsecp256k1.a completely before
\* libzcash_script.a is started; with the feature set, build_secp256k1 and
\* the probes it makes (byte order, pointer width, trial) do not run.
C5_ConditionalSecp ==
    /\ (Attempts("libsecp256k1.a") # {} \/ build # NewBuild) => ~ExternalSecp
    /\ pc \in {"main_windows", "main_compile", "done"} =>
          (Built("libsecp256k1.a") <=> ~ExternalSecp)
    /\ Cardinality(Attempts("libsecp256k1.a")) <= 1
    /\ Cardinality(Attempts("libzcash_script.a")) <= 1
    /\ \A j \in Attempts("libzcash_script.a") :
          \A k \in Attempts("libsecp256k1.a") : k < j /\ archives[k].ok
    /\ ExternalSecp =>
          /\ ~ProberActed
          /\ Attempts("check_uint128_t") = {}
          /\ pc \notin {"secp_std", "secp_config", "secp_endian", "secp_width",
                        "secp_trial", "secp_variant", "secp_compile"}

C5_Witness ==
    /\ ~ExternalSecp
    /\ status = "success"
    /\ Built("libsecp256k1.a") /\ Built("libzcash_script.a")

-----------------------------------------------------------------------------
(* C6 *)

\* bindgen_headers, gen_cxxbridge or the relocation has done something.
GeneratorsActed == cargo # {} \/ wlog # {} \/ copyReads # {}

MainCompileLast ==
    \A j \in Attempts("libzcash_script.a") : j = Len(archives) /\ AllWritten

\* C6 as stated: the prober has read byte order and pointer width and made
\* its trial before bindgen_headers, gen_cxxbridge or the relocation do
\* anything, and the main archive is compiled last, after every generated and
\* relocated file has been written.
C6_ProberFirst ==
    /\ GeneratorsActed => probe.returned
    /\ MainCompileLast

\* C6 amended: the prober runs inside build_secp256k1, only when external-secp
\* is not set, after bindgen_headers, gen_cxxbridge and the relocation have
\* written every one of their files, and before the limb-representation
\* defines are chosen and libsecp256k1.a is compiled; the main archive is
\* compiled last, after every generated and relocated file has been written.
C6_ProberBeforeSecpPlan ==
    /\ ProberActed => AllWritten /\ ~ExternalSecp
    /\ (pc \in {"secp_variant", "secp_compile"}
          \/ Attempts("libsecp256k1.a") # {}) => probe.returned
    /\ (DefineNames(build) \cap {"USE_FIELD_5X52", "USE_FIELD_10X26"} # {}) =>
          probe.returned
    /\ \A j \in Attempts("libzcash_script.a") :
          ~ExternalSecp => probe.returned
    /\ MainCompileLast

C6_Witness ==
    /\ pc = "secp_variant"
    /\ probe.returned
    /\ AllWritten
    /\ Attempts("libzcash_script.a") = {}

-----------------------------------------------------------------------------
(* C7 *)

DeclaredByRelocator ==
    { d.arg : d \in { x \in cargo : x.by = "relocator"
                                     /\ x.kind = "rerun-if-changed" } }

\* C7: once the relocation copies, it has declared rerun-if-changed for
\* exactly the three paths it copies from, depend/zcash/src/rust/src/
\* sapling.rs, sapling/spec.rs and sapling/zip32.rs, and every path read by a
\* copy is a declared path.
C7_DeclaredEqualsCopied ==
    /\ (pc = "reloc_copy" \/ copyReads # {} \/ WrittenBy("relocator") # {}) =>
          DeclaredByRelocator =
            { <<"depend", "zcash", "src", "rust", "src", "sapling.rs">>,
              <<"depend", "zcash", "src", "rust", "src", "sapling", "spec.rs">>,
              <<"depend", "zcash", "src", "rust", "src", "sapling", "zip32.rs">> }
    /\ copyReads \subseteq DeclaredByRelocator

-----------------------------------------------------------------------------
(* C8 *)

RelocationDone ==
    pc \in {"main_outdir", "main_target", "main_std", "main_config",
            "main_secp", "secp_std", "secp_config", "secp_endian",
            "secp_width", "secp_trial", "secp_variant", "secp_compile",
            "main_windows", "main_compile", "done"}

RelocatedTree == { p \in DOMAIN fs : IsUnder(p, <<"OUT_DIR", "rust">>) }

-----------------------------------------------------------------------------
(* C9 *)

\* C9: no output path is written by two different writes of a run: the paths
\* of bindgen_headers (OUT_DIR/bindings.rs), of gen_cxxbridge (under
\* OUT_DIR/gen: cxx.h, one header and one implementation per module, the
\* nested sapling/zip32 included) and of the relocation (under
\* OUT_DIR/rust/sapling) are pairwise disjoint, and inside gen_cxxbridge no
\* two modules, and no header and implementation, share a path.
C9_DisjointOutputs ==
    /\ \A w1 \in wlog : \A w2 \in wlog : w1.path = w2.path => w1 = w2
    /\ WrittenBy("bindgen") \subseteq { <<"OUT_DIR", "bindings.rs">> }
    /\ \A p \in WrittenBy("cxxbridge") : IsUnder(p, <<"OUT_DIR", "gen">>)
    /\ \A p \in WrittenBy("relocator") :
          IsUnder(p, <<"OUT_DIR", "rust", "sapling">>)
    /\ WrittenBy("bindgen") \cap WrittenBy("cxxbridge") = {}
    /\ WrittenBy("bindgen") \cap WrittenBy("relocator") = {}
    /\ WrittenBy("cxxbridge") \cap WrittenBy("relocator") = {}
    /\ status = "success" => WrittenPaths = ExpectedOutputs
                             /\ Cardinality(wlog) = 17

C9_Witness ==
    /\ status = "success"
    /\ <<"OUT_DIR", "gen", "include", "rust", "sapling", "zip32.h">>
         \in WrittenBy("cxxbridge")
    /\ <<"OUT_DIR", "rust", "sapling", "zip32.rs">> \in WrittenBy("relocator")
    /\ Cardinality(wlog) = 17

-----------------------------------------------------------------------------
(* C10 *)

\* C10: at every point of every run, ended or not, every file written and
\* every directory created lies under OUT_DIR, and the files of the source
\* tree under depend/ are the ones the run started with.
C10_InputsNotMutated ==
    /\ \A p \in WrittenPaths : IsUnder(p, <<"OUT_DIR">>)
    /\ \A d \in dirs : d = <<"OUT_DIR">> \/ IsUnder(d, <<"OUT_DIR">>)
    /\ \A p \in DOMAIN fs :
          IsUnder(p, <<"OUT_DIR">>)
          \/ (p \in SourcePaths /\ IsUnder(p, <<"depend">>)
              /\ fs[p] = SrcContent(p, env.rev))
    /\ SourcePaths \subseteq DOMAIN fs

C10_Witness ==
    /\ status = "aborted"
    /\ pc = "reloc_copy" /\ i = 2
    /\ Cardinality(WrittenBy("relocator")) = 1
    /\ Cardinality(WrittenBy("cxxbridge")) = 13

====
